---- MODULE Spec2Model ----
(***************************************************************************)
(* The document-processing pipeline of app.py: the Batch Driver            *)
(* (process_documents), the per-document state machine (process_document), *)
(* the OCR, correction and metadata-extraction adapters, the document      *)
(* store and the temporary files, with the two triggers of the driver      *)
(* (the interval job and POST /process) running as two processes.          *)
(***************************************************************************)
EXTENDS Integers, Sequences, FiniteSets, TLC

\* ---------------------------------------------------------------- bounds
\* Batch Driver passes started in one behaviour (both triggers together).
MaxPasses == 2
\* Pages the OCR service returns for one document, at most.
MaxPages == 2

\* ------------------------------------------------------------ the domain
Docs == {"d1", "d2"}
\* The order in which collection.find yields the records.
DocOrder == <<"d1", "d2">>
\* The two triggers of process_documents: the interval job (one instance at
\* a time) and POST /process.
Procs == {"timer", "http"}

\* Image URLs, as <<directory part, last path component>>.
Images == {<<"http://a/", "doc.png">>, <<"http://b/", "doc.png">>}
ImageOf == [d \in Docs |-> IF d = "d1" THEN <<"http://a/", "doc.png">>
                                        ELSE <<"http://b/", "doc.png">>]
\* os.path.basename of a URL, then secure_filename (the names here are
\* already safe), joined to the temporary directory.
TempPath(url) == <<"tmp", url[2]>>
TempPaths == {TempPath(u) : u \in Images}

Absent == "absent"
Null == "null"
Unbound == "unbound"
NoFile == [url |-> <<"", "">>, by |-> "nobody"]

\* A filter that also selects processed records.
NeedsWork_Mutant == {"notprocessed", "processing", "failed", "processed"}
\* The status filter of process_documents.
NeedsWork == {"notprocessed", "processing", "failed"}

\* -------------------------------------------------------- the OCR adapter
RECURSIVE Join(_)
\* " ".join(lines)
Join(lines) ==
    IF lines = <<>> THEN ""
    ELSE IF Len(lines) = 1 THEN lines[1]
    ELSE lines[1] \o " " \o Join(Tail(lines))

\* What the document-analysis service answers for a file: n pages, numbered
\* from 1, each with its recognized lines.
ServiceResult(n) ==
    [i \in 1..n |-> [page_number |-> i,
                     lines |-> <<"line" \o ToString(i), "end">>]]

\* analyze_document's loop over result.pages.
analyze_document(result) ==
    [i \in 1..Len(result) |->
        [key |-> ToString(result[i].page_number - 1),
         text |-> Join(result[i].lines)]]

\* --------------------------------------------- the correction adapter
CorrReplies == {"clean"}

\* An iteration that keys the corrected text by the page's content.
CorrectedPage_Mutant(page, response) == [key |-> page.text, text |-> response]
\* One iteration of process_ocr_output's loop: the page's key with the
\* completion's text.
CorrectedPage(page, response) == [key |-> page.key, text |-> response]

RECURSIVE CorrectFrom(_, _, _, _, _)
\* The loop from page i on: parts so far, and the adapter calls made.  A
\* failed completion re-raises out of the function.
CorrectFrom(ocr_output, replies, i, parts, calls) ==
    IF i > Len(ocr_output)
    THEN [raised |-> FALSE, parts |-> parts, calls |-> calls]
    ELSE LET page == ocr_output[i]
             call == [key |-> page.key, in |-> page.text, out |-> replies[i]]
         IN  IF replies[i] = "error"
             THEN [raised |-> TRUE, parts |-> <<>>, calls |-> Append(calls, call)]
             ELSE CorrectFrom(ocr_output, replies, i + 1,
                              Append(parts, CorrectedPage(page, replies[i])),
                              Append(calls, call))

\* A loop that stops at the first failed completion and returns the pages
\* corrected so far.
process_ocr_output_Partial(ocr_output, replies) ==
    LET n == CHOOSE k \in 0..Len(ocr_output) :
                 /\ \A i \in 1..k : replies[i] # "error"
                 /\ k < Len(ocr_output) => replies[k + 1] = "error"
    IN  [raised |-> FALSE,
         parts |-> [i \in 1..n |-> CorrectedPage(ocr_output[i], replies[i])],
         calls |-> CorrectFrom(ocr_output, replies, 1, <<>>, <<>>).calls]
\* A loop that appends page_content where it should append the response.
process_ocr_output_Mutant(ocr_output, replies) ==
    LET r == CorrectFrom(ocr_output, replies, 1, <<>>, <<>>)
    IN  [r EXCEPT !.parts = [i \in 1..Len(r.parts) |->
                                [key |-> ocr_output[i].key,
                                 text |-> ocr_output[i].text]]]
\* process_ocr_output(ocr_output), the completion service answering replies.
process_ocr_output(ocr_output, replies) ==
    CorrectFrom(ocr_output, replies, 1, <<>>, <<>>)

\* ------------------------------------- the metadata extraction adapter
\* What get_openai_response does inside get_metadata: it raises ("error"),
\* or returns a completion that is not JSON ("notjson") or a JSON object.
MetaReplies == {"error", "notjson", "m1"}

\* get_metadata: [raised, value].  A missing record raises ValueError, a
\* failed completion re-raises, a body that is not JSON is caught and the
\* function falls off its end (None).
get_metadata(found, reply) ==
    IF ~found THEN [raised |-> TRUE, kind |-> "NotFound", value |-> Null]
    ELSE IF reply = "error"
         THEN [raised |-> TRUE, kind |-> "CompletionFailure", value |-> Null]
    ELSE IF reply = "notjson"
         THEN [raised |-> FALSE, kind |-> "ParseFailure", value |-> Null]
    ELSE [raised |-> FALSE, kind |-> "ok", value |-> reply]

\* --------------------------------------------------------- the store
\* The $set documents of the update_one calls.
SetStatus(s) ==
    [f |-> "status", status |-> s, ocr_output |-> <<>>, json_data |-> <<>>,
     processed_date |-> <<>>, final_assignment |-> Absent, final_release |-> Absent]
SetData(ocr, json) ==
    [f |-> "data", status |-> Absent, ocr_output |-> ocr, json_data |-> json,
     processed_date |-> <<>>, final_assignment |-> Absent, final_release |-> Absent]
\* A final update that leaves processed_date out.
SetFinal_Mutant(date, fa, fr) ==
    [f |-> "final", status |-> "processed", ocr_output |-> <<>>, json_data |-> <<>>,
     processed_date |-> <<>>, final_assignment |-> fa, final_release |-> fr]
SetFinal(date, fa, fr) ==
    [f |-> "final", status |-> "processed", ocr_output |-> <<>>, json_data |-> <<>>,
     processed_date |-> date, final_assignment |-> fa, final_release |-> fr]

\* An update that replaces the record's result fields where it should set
\* one field.
ApplySet_Mutant(rec, w) ==
    CASE w.f = "status" -> [rec EXCEPT !.status = w.status,
                                       !.processed_date = <<>>,
                                       !.final_assignment = Absent,
                                       !.final_release = Absent]
      [] w.f = "data"   -> [rec EXCEPT !.ocr_output = w.ocr_output,
                                       !.json_data = w.json_data]
      [] w.f = "final"  -> [rec EXCEPT !.status = w.status,
                                       !.processed_date = w.processed_date,
                                       !.final_assignment = w.final_assignment,
                                       !.final_release = w.final_release]
\* update_one's $set on one record.
ApplySet(rec, w) ==
    CASE w.f = "status" -> [rec EXCEPT !.status = w.status]
      [] w.f = "data"   -> [rec EXCEPT !.ocr_output = w.ocr_output,
                                       !.json_data = w.json_data]
      [] w.f = "final"  -> [rec EXCEPT !.status = w.status,
                                       !.processed_date = w.processed_date,
                                       !.final_assignment = w.final_assignment,
                                       !.final_release = w.final_release]

\* A test that never takes the cached branch.
HasOcrOutput_Mutant(doc) == FALSE
\* The truth value of doc.get("ocr_output"): a missing or empty list is false.
HasOcrOutput(doc) == doc.ocr_output # <<>>

VARIABLES
    store,       \* the collection: one record per document
    files,       \* the temporary directory: path -> file, or NoFile
    passes,      \* Batch Driver passes started so far
    pc,          \* each trigger's position in process_documents / process_document
    queue,       \* the documents the pass's cursor has still to yield
    cur,         \* doc, the record process_document was given
    loc,         \* process_document's local variables
    h,           \* what the current (or last) process_document run did
    ps,          \* what the current pass did, and how the last one ended
    overlap      \* whether the two triggers may run passes at the same time

vars == <<store, files, passes, pc, queue, cur, loc, h, ps, overlap>>

NoDoc == [id |-> "none", status |-> Absent, ocr_output |-> <<>>]

NoLoc == [extracted_data |-> <<>>, processed_data |-> <<>>,
          final_assignment |-> Unbound, final_release |-> Unbound,
          after |-> "none"]

NoRun == [doc |-> "none", dl |-> 0, ocr |-> 0, tmp |-> FALSE,
          ocrRes |-> [kind |-> "none", pages |-> <<>>],
          corr |-> <<>>, asg |-> <<>>, rel |-> <<>>, writes |-> <<>>,
          fault |-> FALSE, ended |-> "no", endStatus |-> Absent,
          endFile |-> NoFile]

NoPass == [no |-> 0, picked |-> {}, ran |-> {}, result |-> "none",
           alone |-> TRUE, fault |-> FALSE]

\* A record as upstream ingestion creates it.
NewRecord(d) ==
    [status |-> "notprocessed", image |-> ImageOf[d],
     ocr_output |-> <<>>, json_data |-> <<>>, processed_date |-> <<>>,
     final_assignment |-> Absent, final_release |-> Absent]

\* A record a pass before the behaviour's first one has processed.
DoneRecord(d) ==
    LET ocr == analyze_document(ServiceResult(1))
    IN  [status |-> "processed", image |-> ImageOf[d],
         ocr_output |-> ocr,
         json_data |-> <<CorrectedPage(ocr[1], "clean")>>,
         processed_date |-> <<0>>,
         final_assignment |-> "m1", final_release |-> "m1"]

\* Two regimes: the passes follow one another and both records are new, or
\* the passes of the two triggers may overlap, d1 is new and d2 is processed.
Init ==
    /\ overlap \in BOOLEAN
    /\ store = [d \in Docs |->
                  IF overlap /\ d = "d2" THEN DoneRecord(d) ELSE NewRecord(d)]
    /\ files = [t \in TempPaths |-> NoFile]
    /\ passes = 0
    /\ pc = [p \in Procs |-> "idle"]
    /\ queue = [p \in Procs |-> <<>>]
    /\ cur = [p \in Procs |-> NoDoc]
    /\ loc = [p \in Procs |-> NoLoc]
    /\ h = [p \in Procs |-> NoRun]
    /\ ps = [p \in Procs |-> NoPass]

\* ------------------------------------------- the environment's choices
\* Where the passes follow one another every update_one may raise and the
\* completion service may answer anything; where they may overlap the
\* store does not fail and an extraction's completion is a JSON object or
\* a failure.
\* Whether an update_one succeeds (TRUE) or raises without writing.
WriteOk == IF overlap THEN {TRUE} ELSE BOOLEAN
\* Whether httpx.get and raise_for_status succeed.
DownloadOk == BOOLEAN
\* What the completion service answers to an extraction prompt.
MetaChoices == IF overlap THEN {"error", "m1"} ELSE MetaReplies
\* The document-analysis service: -1 for a failure, or a number of pages.
OcrChoices == {-1} \cup (0..MaxPages)
\* What the completion service answers to the correction prompts of one
\* call of process_ocr_output, page by page.
CorrChoices(n) == [1..n -> CorrReplies \cup {"error"}]

\* ------------------------------------------------------ shorthands
Path(p) == TempPath(store[cur[p].id].image)

\* update_one applied to the record process_document was given.
Updated(p, w) == [store EXCEPT ![cur[p].id] = ApplySet(@, w)]
Logged(p, w) == [h[p] EXCEPT !.writes = Append(@, w)]
Faulted(p) == [h[p] EXCEPT !.fault = TRUE]

\* process_document returns to the for loop of process_documents.
Returns(p, hrec) ==
    /\ h' = [h EXCEPT ![p] = [hrec EXCEPT !.ended = "returned",
                                          !.endStatus = store'[cur[p].id].status,
                                          !.endFile = files'[Path(p)]]]
    /\ ps' = [ps EXCEPT ![p].fault = @ \/ hrec.fault]
    /\ pc' = [pc EXCEPT ![p] = "loop"]
    /\ loc' = [loc EXCEPT ![p] = NoLoc]
    /\ UNCHANGED <<passes, queue, cur, overlap>>

\* An exception leaves process_document: nothing in process_documents or in
\* process_route catches it, so the pass ends with it.
Escapes(p) ==
    /\ h' = [h EXCEPT ![p] = NoRun]
    /\ ps' = [ps EXCEPT ![p] = [NoPass EXCEPT !.result = "raised"]]
    /\ pc' = [pc EXCEPT ![p] = "idle"]
    /\ queue' = [queue EXCEPT ![p] = <<>>]
    /\ loc' = [loc EXCEPT ![p] = NoLoc]
    /\ cur' = [cur EXCEPT ![p] = NoDoc]
    /\ UNCHANGED <<passes, overlap>>

\* ------------------------------------------------ process_documents
\* collection.find with the status filter: the records it yields, in order.
Find ==
    LET ids == SelectSeq(DocOrder, LAMBDA d : store[d].status \in NeedsWork)
    IN  [i \in 1..Len(ids) |->
            [id |-> ids[i], status |-> store[ids[i]].status,
             ocr_output |-> store[ids[i]].ocr_output]]

StartPass(p) ==
    /\ pc[p] = "idle"
    /\ passes < MaxPasses
    /\ overlap \/ \A r \in Procs : pc[r] = "idle"
    /\ passes' = passes + 1
    /\ queue' = [queue EXCEPT ![p] = Find]
    /\ ps' = [q \in Procs |->
                IF q = p
                THEN [NoPass EXCEPT !.no = passes + 1,
                                    !.picked = {Find[i].id : i \in 1..Len(Find)},
                                    !.result = "running",
                                    !.alone = \A r \in Procs \ {p} : pc[r] = "idle"]
                ELSE IF pc[q] # "idle" THEN [ps[q] EXCEPT !.alone = FALSE]
                ELSE ps[q]]
    /\ pc' = [pc EXCEPT ![p] = "loop"]
    /\ UNCHANGED <<store, files, cur, loc, h, overlap>>

\* The for loop hands the next record to process_document.
BeginRun(p) ==
    /\ pc[p] = "loop"
    /\ queue[p] # <<>>
    /\ cur' = [cur EXCEPT ![p] = Head(queue[p])]
    /\ queue' = [queue EXCEPT ![p] = Tail(@)]
    /\ loc' = [loc EXCEPT ![p] = NoLoc]
    /\ h' = [h EXCEPT ![p] = [NoRun EXCEPT !.doc = Head(queue[p]).id]]
    /\ ps' = [ps EXCEPT ![p].ran = @ \cup {Head(queue[p]).id}]
    /\ pc' = [pc EXCEPT ![p] = "mark"]
    /\ UNCHANGED <<store, files, passes, overlap>>

\* The cursor is exhausted: process_documents returns (POST /process: 200).
PassReturn(p) ==
    /\ pc[p] = "loop"
    /\ queue[p] = <<>>
    /\ ps' = [ps EXCEPT ![p] = [NoPass EXCEPT !.result = "returned",
                                              !.picked = ps[p].picked,
                                              !.alone = ps[p].alone]]
    /\ pc' = [pc EXCEPT ![p] = "idle"]
    /\ cur' = [cur EXCEPT ![p] = NoDoc]
    /\ h' = [h EXCEPT ![p] = NoRun]
    /\ UNCHANGED <<store, files, passes, queue, loc, overlap>>

\* ------------------------------------------------- process_document
\* Line 96, then the test of doc.get("ocr_output").
Mark(p) ==
    /\ pc[p] = "mark"
    /\ \E ok \in WriteOk :
        IF ok
        THEN /\ store' = Updated(p, SetStatus("processing"))
             /\ h' = [h EXCEPT ![p] = Logged(p, SetStatus("processing"))]
             /\ IF HasOcrOutput(cur[p])
                THEN /\ loc' = [loc EXCEPT ![p].extracted_data = cur[p].ocr_output]
                     /\ pc' = [pc EXCEPT ![p] = "correct_cached"]
                ELSE /\ loc' = loc
                     /\ pc' = [pc EXCEPT ![p] = "download"]
        ELSE /\ h' = [h EXCEPT ![p] = Faulted(p)]
             /\ pc' = [pc EXCEPT ![p] = "except"]
             /\ UNCHANGED <<store, loc>>
    /\ UNCHANGED <<files, passes, queue, cur, ps, overlap>>

\* Lines 105-111: httpx.get, raise_for_status, then the body is written to
\* the temporary file (open 'wb' replaces a file already there).
Download(p) ==
    /\ pc[p] = "download"
    /\ \E ok \in DownloadOk :
        IF ok
        THEN /\ files' = [files EXCEPT ![Path(p)] =
                           [url |-> store[cur[p].id].image, by |-> p]]
             /\ h' = [h EXCEPT ![p].dl = @ + 1, ![p].tmp = TRUE]
             /\ pc' = [pc EXCEPT ![p] = "ocr"]
        ELSE /\ files' = files
             /\ h' = [h EXCEPT ![p].dl = @ + 1]
             /\ pc' = [pc EXCEPT ![p] = "except"]
    /\ UNCHANGED <<store, passes, queue, cur, loc, ps, overlap>>

\* analyze_document(temp_file_path): it opens the file, so a file that is
\* gone raises like a failure of the service.
Ocr(p) ==
    /\ pc[p] = "ocr"
    /\ \E out \in OcrChoices :
        IF out = -1 \/ files[Path(p)] = NoFile
        THEN /\ h' = [h EXCEPT ![p].ocr = @ + 1,
                               ![p].ocrRes = [kind |-> "raise", pages |-> <<>>]]
             /\ pc' = [pc EXCEPT ![p] = "inner_except"]
             /\ loc' = loc
        ELSE LET pages == analyze_document(ServiceResult(out))
             IN  /\ h' = [h EXCEPT ![p].ocr = @ + 1,
                                   ![p].ocrRes = [kind |-> "pages", pages |-> pages]]
                 /\ loc' = [loc EXCEPT ![p].extracted_data = pages]
                 /\ pc' = [pc EXCEPT ![p] =
                             IF pages = <<>> THEN "empty" ELSE "correct_ocr"]
    /\ UNCHANGED <<store, files, passes, queue, cur, ps, overlap>>

\* An empty result that returns without the write of line 116.
Empty_Mutant(p) ==
    /\ pc[p] = "empty"
    /\ loc' = [loc EXCEPT ![p].after = "return"]
    /\ pc' = [pc EXCEPT ![p] = "finally"]
    /\ UNCHANGED <<store, h, files, passes, queue, cur, ps, overlap>>
\* Lines 115-118: nothing extracted.
Empty(p) ==
    /\ pc[p] = "empty"
    /\ \E ok \in WriteOk :
        IF ok
        THEN /\ store' = Updated(p, SetStatus("failed"))
             /\ h' = [h EXCEPT ![p] = Logged(p, SetStatus("failed"))]
             /\ loc' = [loc EXCEPT ![p].after = "return"]
             /\ pc' = [pc EXCEPT ![p] = "finally"]
        ELSE /\ h' = [h EXCEPT ![p] = Faulted(p)]
             /\ pc' = [pc EXCEPT ![p] = "inner_except"]
             /\ UNCHANGED <<store, loc>>
    /\ UNCHANGED <<files, passes, queue, cur, ps, overlap>>

\* Lines 102 and 120: process_ocr_output on the cached or the fresh pages.
Correct(p) ==
    /\ pc[p] \in {"correct_cached", "correct_ocr"}
    /\ \E replies \in CorrChoices(Len(loc[p].extracted_data)) :
        LET r == process_ocr_output(loc[p].extracted_data, replies)
        IN  /\ h' = [h EXCEPT ![p].corr = r.calls]
            /\ IF r.raised
               THEN /\ pc' = [pc EXCEPT ![p] =
                                IF pc[p] = "correct_cached" THEN "except"
                                ELSE "inner_except"]
                    /\ loc' = loc
               ELSE /\ loc' = [loc EXCEPT ![p].processed_data = r.parts]
                    /\ pc' = [pc EXCEPT ![p] =
                                IF pc[p] = "correct_cached" THEN "persist_cached"
                                ELSE "persist_ocr"]
    /\ UNCHANGED <<store, files, passes, queue, cur, ps, overlap>>

\* Lines 103 and 121: persist ocr_output and json_data.
PersistData(p) ==
    /\ pc[p] \in {"persist_cached", "persist_ocr"}
    /\ LET w == SetData(loc[p].extracted_data, loc[p].processed_data)
       IN \E ok \in WriteOk :
        IF ok
        THEN /\ store' = Updated(p, w)
             /\ h' = [h EXCEPT ![p] = Logged(p, w)]
             /\ IF pc[p] = "persist_cached"
                THEN /\ pc' = [pc EXCEPT ![p] = "assign1"]
                     /\ loc' = loc
                ELSE /\ pc' = [pc EXCEPT ![p] = "finally"]
                     /\ loc' = [loc EXCEPT ![p].after = "extract"]
        ELSE /\ h' = [h EXCEPT ![p] = Faulted(p)]
             /\ pc' = [pc EXCEPT ![p] =
                         IF pc[p] = "persist_cached" THEN "except"
                         ELSE "inner_except"]
             /\ UNCHANGED <<store, loc>>
    /\ UNCHANGED <<files, passes, queue, cur, ps, overlap>>

\* A handler around OCR and correction that only logs and returns.
InnerExcept_Mutant(p) ==
    /\ pc[p] = "inner_except"
    /\ loc' = [loc EXCEPT ![p].after = "return"]
    /\ pc' = [pc EXCEPT ![p] = "finally"]
    /\ UNCHANGED <<store, h, files, passes, queue, cur, ps, overlap>>
\* Lines 122-125: the handler around OCR and correction.
InnerExcept(p) ==
    /\ pc[p] = "inner_except"
    /\ \E ok \in WriteOk :
        IF ok
        THEN /\ store' = Updated(p, SetStatus("failed"))
             /\ h' = [h EXCEPT ![p] = Logged(p, SetStatus("failed"))]
             /\ loc' = [loc EXCEPT ![p].after = "return"]
        ELSE /\ h' = [h EXCEPT ![p] = Faulted(p)]
             /\ loc' = [loc EXCEPT ![p].after = "raise"]
             /\ store' = store
    /\ pc' = [pc EXCEPT ![p] = "finally"]
    /\ UNCHANGED <<files, passes, queue, cur, ps, overlap>>

\* An os.remove placed after the try statement: only the path that goes on
\* to the extractions removes the file.
Finally_Mutant(p) ==
    /\ pc[p] = "finally"
    /\ store' = store
    /\ IF loc[p].after = "extract"
       THEN /\ files' = [files EXCEPT ![Path(p)] = NoFile]
            /\ pc' = [pc EXCEPT ![p] = "assign1"]
            /\ UNCHANGED <<passes, queue, cur, loc, h, ps, overlap>>
       ELSE /\ files' = files
            /\ IF loc[p].after = "raise"
               THEN /\ pc' = [pc EXCEPT ![p] = "except"]
                    /\ UNCHANGED <<passes, queue, cur, loc, h, ps, overlap>>
               ELSE Returns(p, h[p])
\* Line 127, the finally clause: os.remove raises when the file is gone, and
\* that exception replaces the pending return or exception.
Finally(p) ==
    /\ pc[p] = "finally"
    /\ store' = store
    /\ IF files[Path(p)] = NoFile
       THEN /\ files' = files
            /\ pc' = [pc EXCEPT ![p] = "except"]
            /\ UNCHANGED <<passes, queue, cur, loc, h, ps, overlap>>
       ELSE /\ files' = [files EXCEPT ![Path(p)] = NoFile]
            /\ CASE loc[p].after = "extract" ->
                      /\ pc' = [pc EXCEPT ![p] = "assign1"]
                      /\ UNCHANGED <<passes, queue, cur, loc, h, ps, overlap>>
                 [] loc[p].after = "raise" ->
                      /\ pc' = [pc EXCEPT ![p] = "except"]
                      /\ UNCHANGED <<passes, queue, cur, loc, h, ps, overlap>>
                 [] loc[p].after = "return" -> Returns(p, h[p])

\* Lines 131-148: where control goes after one call of get_metadata_for_*.
\* A call that raised is repeated once; after the second raise the handler
\* only logs, and the local variable stays unbound.
AfterExtract(at, raised) ==
    CASE at = "assign1"  -> IF raised THEN "assign2" ELSE "release1"
      [] at = "assign2"  -> "release1"
      [] at = "release1" -> IF raised THEN "release2" ELSE "final"
      [] at = "release2" -> "final"

\* One call of get_metadata_for_final_assignment / _final_release.  The
\* record is read by find_one and is never deleted, so it is found.
Extract(p) ==
    /\ pc[p] \in {"assign1", "assign2", "release1", "release2"}
    /\ \E reply \in MetaChoices :
        LET r == get_metadata(cur[p].id \in Docs, reply)
            assign == pc[p] \in {"assign1", "assign2"}
        IN  /\ h' = [h EXCEPT ![p] = IF assign
                                     THEN [@ EXCEPT !.asg = Append(@, r)]
                                     ELSE [@ EXCEPT !.rel = Append(@, r)]]
            /\ loc' = IF r.raised THEN loc
                      ELSE IF assign
                           THEN [loc EXCEPT ![p].final_assignment = r.value]
                           ELSE [loc EXCEPT ![p].final_release = r.value]
            /\ pc' = [pc EXCEPT ![p] = AfterExtract(pc[p], r.raised)]
    /\ UNCHANGED <<store, files, passes, queue, cur, ps, overlap>>

\* Lines 149-159: building update_data reads both locals (an unbound one
\* raises UnboundLocalError), then the final update_one.  processed_date,
\* taken at line 129, is the pass's instant.
Final(p) ==
    /\ pc[p] = "final"
    /\ files' = files
    /\ IF loc[p].final_release = Unbound \/ loc[p].final_assignment = Unbound
       THEN /\ pc' = [pc EXCEPT ![p] = "except"]
            /\ UNCHANGED <<store, passes, queue, cur, loc, h, ps, overlap>>
       ELSE LET w == SetFinal(<<ps[p].no>>, loc[p].final_assignment,
                              loc[p].final_release)
            IN \E ok \in WriteOk :
                IF ok
                THEN /\ store' = Updated(p, w)
                     /\ Returns(p, Logged(p, w))
                ELSE /\ h' = [h EXCEPT ![p] = Faulted(p)]
                     /\ pc' = [pc EXCEPT ![p] = "except"]
                     /\ UNCHANGED <<store, passes, queue, cur, loc, ps, overlap>>

\* A handler that only logs.
Except_Mutant(p) ==
    /\ pc[p] = "except"
    /\ files' = files
    /\ store' = store
    /\ Returns(p, h[p])
\* Lines 160-162: the handler at the document boundary.  Its own update_one
\* is not guarded.
Except(p) ==
    /\ pc[p] = "except"
    /\ files' = files
    /\ \E ok \in WriteOk :
        IF ok
        THEN /\ store' = Updated(p, SetStatus("failed"))
             /\ Returns(p, Logged(p, SetStatus("failed")))
        ELSE /\ store' = store
             /\ Escapes(p)

Next ==
    \E p \in Procs :
        \/ StartPass(p)
        \/ BeginRun(p)
        \/ PassReturn(p)
        \/ Mark(p)
        \/ Download(p)
        \/ Ocr(p)
        \/ Empty(p)
        \/ Correct(p)
        \/ PersistData(p)
        \/ InnerExcept(p)
        \/ Finally(p)
        \/ Extract(p)
        \/ Final(p)
        \/ Except(p)

Spec == Init /\ [][Next]_vars

\* ------------------------------------------------------------ the claims
Last(seq) == seq[Len(seq)]

\* The status a run wrote last ("none" before its first status write).
LastStatus(writes) ==
    LET at == {i \in 1..Len(writes) : writes[i].f \in {"status", "final"}}
    IN  IF at = {} THEN "none"
        ELSE writes[CHOOSE i \in at : \A j \in at : j <= i].status

\* The pass of p has run process_document on every record of its cursor and
\* is about to return.
PassDone(p) == pc[p] = "loop" /\ queue[p] = <<>>

\* process_document has returned to the loop of p's pass.
RunDone(p) == h[p].ended = "returned"

\* C1: when a pass that ran alone, and in which no update_one raised, has
\* run all the records its query selected, each of them is processed or
\* failed, whatever the download, OCR, correction and extraction did.
C1_PassLeavesNoneProcessing ==
    \A p \in Procs :
        (PassDone(p) /\ ps[p].alone /\ ~ps[p].fault)
            => \A d \in ps[p].picked : store[d].status \in {"processed", "failed"}

C1_Witness ==
    \E p \in Procs :
        /\ PassDone(p) /\ ps[p].alone /\ ~ps[p].fault
        /\ ps[p].picked = Docs
        /\ store["d1"].status = "failed"
        /\ store["d2"].status = "processed"

\* C2: every change of a stored status is notprocessed -> processing,
\* failed -> processing, processing -> processed or processing -> failed.
AllowedChange ==
    {<<"notprocessed", "processing">>, <<"failed", "processing">>,
     <<"processing", "processed">>, <<"processing", "failed">>}

C2_StatusOnlyForward ==
    [][\A d \in Docs :
         store'[d].status # store[d].status
            => <<store[d].status, store'[d].status>> \in AllowedChange]_vars

\* C2 again, in the behaviours where the passes may overlap and no
\* update_one raises: there too a status goes backwards.
C2_StatusOnlyForward_Overlapping ==
    [][overlap =>
        \A d \in Docs :
         store'[d].status # store[d].status
            => <<store[d].status, store'[d].status>> \in AllowedChange]_vars

\* C3: a run given a record with a populated ocr_output never downloads the
\* image and never calls analyze_document; the correction adapter is called
\* on the stored pages, in order.
C3_CachedOcrSkipsOcr ==
    \A p \in Procs :
        (h[p].doc # "none" /\ cur[p].ocr_output # <<>>)
            => /\ h[p].dl = 0 /\ h[p].ocr = 0 /\ ~h[p].tmp
               /\ Len(h[p].corr) <= Len(cur[p].ocr_output)
               /\ \A i \in 1..Len(h[p].corr) :
                    /\ h[p].corr[i].in = cur[p].ocr_output[i].text
                    /\ h[p].corr[i].key = cur[p].ocr_output[i].key

C3_Witness ==
    \E p \in Procs :
        /\ RunDone(p)
        /\ cur[p].ocr_output # <<>>
        /\ Len(h[p].corr) = Len(cur[p].ocr_output)
        /\ LastStatus(h[p].writes) = "processed"

\* C4: when analyze_document returns no page, the run calls neither the
\* correction nor the extraction adapter, writes neither ocr_output nor
\* json_data, and the last status it writes before it returns is failed
\* (the stored status, when the pass runs alone).
C4_EmptyOcrFails ==
    \A p \in Procs :
        (h[p].ocrRes.kind = "pages" /\ h[p].ocrRes.pages = <<>>)
            => /\ h[p].corr = <<>> /\ h[p].asg = <<>> /\ h[p].rel = <<>>
               /\ \A i \in 1..Len(h[p].writes) : h[p].writes[i].f = "status"
               /\ RunDone(p) =>
                    /\ LastStatus(h[p].writes) = "failed"
                    /\ ps[p].alone => h[p].endStatus = "failed"

C4_Witness ==
    \E p \in Procs :
        /\ RunDone(p)
        /\ h[p].ocrRes.kind = "pages" /\ h[p].ocrRes.pages = <<>>
        /\ h[p].endStatus = "failed"

\* C5: in a run where no update_one raised, a schema whose first extraction
\* raised and whose second returned a value was called exactly twice, and
\* the run ends by writing processed with that value in the schema's field.
RetryStored(log, w, field) ==
    (Len(log) >= 2 /\ log[1].raised /\ log[2].kind = "ok")
        => /\ Len(log) = 2
           /\ w.f = "final"
           /\ w.status = "processed"
           /\ field = log[2].value

C5_RetryValueStored ==
    \A p \in Procs :
        (RunDone(p) /\ ~h[p].fault)
            => /\ RetryStored(h[p].asg, Last(h[p].writes),
                              Last(h[p].writes).final_assignment)
               /\ RetryStored(h[p].rel, Last(h[p].writes),
                              Last(h[p].writes).final_release)

\* C6: in a run where no update_one raised, a schema whose two extraction
\* attempts both raised does not keep the run from writing processed.
TwiceRaised(log) == Len(log) = 2 /\ log[1].raised /\ log[2].raised

C6_DoubleFailureStillProcessed ==
    \A p \in Procs :
        (RunDone(p) /\ ~h[p].fault /\ (TwiceRaised(h[p].asg) \/ TwiceRaised(h[p].rel)))
            => /\ Len(h[p].rel) >= 1
               /\ Last(h[p].writes).f = "final"
               /\ LastStatus(h[p].writes) = "processed"

\* C7: no exception leaves process_document, so no pass ends by one; a run
\* that did not end by the final write ended by writing failed; and a pass
\* that is about to return has run every record its query selected.
C7_FailureNeverEscapes ==
    \A p \in Procs :
        /\ ps[p].result # "raised"
        /\ RunDone(p) => LastStatus(h[p].writes) \in {"processed", "failed"}
        /\ PassDone(p) => ps[p].ran = ps[p].picked

\* C8: when a run that wrote its temporary file returns, no file it wrote is
\* left (no file at all at that path, when the pass runs alone); and if
\* analyze_document raised, the last status the run wrote is failed.
C8_TempFileRemoved ==
    \A p \in Procs :
        (RunDone(p) /\ h[p].tmp)
            => /\ h[p].endFile.by # p
               /\ ps[p].alone => h[p].endFile = NoFile
               /\ h[p].ocrRes.kind = "raise" =>
                    /\ LastStatus(h[p].writes) = "failed"
                    /\ ps[p].alone => h[p].endStatus = "failed"

C8_Witness ==
    \E p \in Procs :
        /\ RunDone(p) /\ h[p].tmp
        /\ h[p].ocrRes.kind = "raise"
        /\ h[p].endFile = NoFile
        /\ h[p].endStatus = "failed"

\* C9: a pass that starts when a record is processed does not select it,
\* and no step of that pass writes a field of a record it did not select or
\* hands such a record to process_document.
Acts(p) == pc'[p] # pc[p] \/ h'[p] # h[p]

C9_ProcessedIsNoOp ==
    [][\A p \in Procs, d \in Docs :
         /\ (pc[p] = "idle" /\ pc'[p] = "loop" /\ store[d].status = "processed")
               => /\ d \notin ps'[p].picked
                  /\ \A i \in 1..Len(queue'[p]) : queue'[p][i].id # d
         /\ (pc[p] # "idle" /\ Acts(p) /\ d \notin ps[p].picked)
               => /\ store'[d] = store[d]
                  /\ cur'[p].id # d /\ h'[p].doc # d]_vars

C9_Witness ==
    \E p \in Procs, d \in Docs :
        /\ PassDone(p)
        /\ ps[p].picked = Docs \ {d}
        /\ ps[p].ran = ps[p].picked
        /\ store[d].status = "processed"

\* C10: a run on a notprocessed record without ocr_output, in which the
\* download, the OCR (with at least one page), every correction and the
\* last attempt of both extractions succeeded and no update_one raised,
\* made exactly three writes: processing; ocr_output = the OCR adapter's
\* pages with json_data = each page's key with the correction adapter's
\* answer for that page's text; processed with processed_date and the two
\* extraction results.  When the pass runs alone the record holds them.
AllSucceeded(p) ==
    /\ RunDone(p) /\ ~h[p].fault
    /\ cur[p].status = "notprocessed" /\ cur[p].ocr_output = <<>>
    /\ h[p].dl = 1 /\ h[p].tmp
    /\ h[p].ocrRes.kind = "pages" /\ h[p].ocrRes.pages # <<>>
    /\ Len(h[p].corr) = Len(h[p].ocrRes.pages)
    /\ \A i \in 1..Len(h[p].corr) : h[p].corr[i].out # "error"
    /\ h[p].asg # <<>> /\ ~Last(h[p].asg).raised
    /\ h[p].rel # <<>> /\ ~Last(h[p].rel).raised

C10_EndToEnd ==
    \A p \in Procs :
        AllSucceeded(p) =>
            LET pages == h[p].ocrRes.pages
                json == [i \in 1..Len(pages) |->
                            [key |-> pages[i].key, text |-> h[p].corr[i].out]]
                rec == store[h[p].doc]
            IN  /\ \A i \in 1..Len(pages) : h[p].corr[i].in = pages[i].text
                /\ h[p].writes =
                     <<SetStatus("processing"), SetData(pages, json),
                       SetFinal(<<ps[p].no>>, Last(h[p].asg).value,
                                Last(h[p].rel).value)>>
                /\ ps[p].alone =>
                     /\ rec.status = "processed"
                     /\ rec.ocr_output = pages
                     /\ rec.json_data = json
                     /\ rec.processed_date = <<ps[p].no>>
                     /\ rec.final_assignment = Last(h[p].asg).value
                     /\ rec.final_release = Last(h[p].rel).value

C10_Witness ==
    \E p \in Procs :
        /\ AllSucceeded(p)
        /\ Len(h[p].ocrRes.pages) = 2
        /\ Len(h[p].asg) = 1 /\ Len(h[p].rel) = 1
        /\ store[h[p].doc].json_data =
             <<[key |-> "0", text |-> "clean"], [key |-> "1", text |-> "clean"]>>
        /\ store[h[p].doc].ocr_output =
             <<[key |-> "0", text |-> "line1 end"], [key |-> "1", text |-> "line2 end"]>>

\* C11: in a run where no update_one raised, an extraction whose completion
\* was not JSON raised nothing and returned no result, was the schema's last
\* attempt, and the run ends by writing processed with null in the schema's
\* field.
NonJson(log) == \E i \in 1..Len(log) : log[i].kind = "ParseFailure"

NullStored(log, w, field) ==
    NonJson(log)
        => /\ Last(log).kind = "ParseFailure"
           /\ ~Last(log).raised /\ Last(log).value = Null
           /\ w.f = "final"
           /\ w.status = "processed"
           /\ field = Null

C11_NonJsonStoredAsNull ==
    \A p \in Procs :
        (RunDone(p) /\ ~h[p].fault)
            => /\ NullStored(h[p].asg, Last(h[p].writes),
                             Last(h[p].writes).final_assignment)
               /\ NullStored(h[p].rel, Last(h[p].writes),
                             Last(h[p].writes).final_release)

\* C11 again, for the runs in which no schema's two attempts both raised:
\* there the null is stored and the run ends processed.
C11_NonJsonStoredAsNull_NoDoubleFailure ==
    \A p \in Procs :
        (RunDone(p) /\ ~h[p].fault
           /\ ~TwiceRaised(h[p].asg) /\ ~TwiceRaised(h[p].rel))
            => /\ NullStored(h[p].asg, Last(h[p].writes),
                             Last(h[p].writes).final_assignment)
               /\ NullStored(h[p].rel, Last(h[p].writes),
                             Last(h[p].writes).final_release)

C11_NoDoubleFailure_Witness ==
    \E p \in Procs :
        /\ RunDone(p) /\ ~h[p].fault
        /\ Len(h[p].asg) = 2 /\ Last(h[p].asg).kind = "ParseFailure"
        /\ store[h[p].doc].status = "processed"
        /\ store[h[p].doc].final_assignment = Null
        /\ store[h[p].doc].final_release = "m1"

\* C12: a record whose json_data is populated has as many pages in json_data
\* as in ocr_output, with the same key at every position.
Aligned(rec) ==
    /\ Len(rec.json_data) = Len(rec.ocr_output)
    /\ \A i \in 1..Len(rec.json_data) :
         rec.json_data[i].key = rec.ocr_output[i].key

C12_PageKeysAligned ==
    /\ \A d \in Docs : store[d].json_data # <<>> => Aligned(store[d])
    /\ \A p \in Procs : \A i \in 1..Len(h[p].writes) :
         h[p].writes[i].f = "data" => Aligned(h[p].writes[i])

\* Two overlapping runs on the same record each persisted their pages, of
\* different lengths.
C12_Witness ==
    \E p \in Procs, q \in Procs :
        /\ p # q /\ h[p].doc = h[q].doc /\ h[p].doc # "none"
        /\ Len(h[p].writes) >= 2 /\ h[p].writes[2].f = "data"
        /\ Len(h[q].writes) >= 2 /\ h[q].writes[2].f = "data"
        /\ Len(h[p].writes[2].json_data) = 1
        /\ Len(h[q].writes[2].json_data) = 2
        /\ Len(store[h[p].doc].json_data) = 2

\* C13: for each schema the adapter is called at most twice, and a second
\* time exactly when the first attempt failed, whether it raised (NotFound,
\* CompletionFailure) or returned nothing for a completion that is not JSON
\* (ParseFailure).
RetriedIffFailed(log, done) ==
    /\ Len(log) <= 2
    /\ Len(log) = 2 => log[1].kind # "ok"
    /\ (done /\ Len(log) >= 1 /\ log[1].kind # "ok") => Len(log) = 2

C13_RetryExactlyOnFailure ==
    \A p \in Procs :
        /\ RetriedIffFailed(h[p].asg, h[p].rel # <<>>)
        /\ RetriedIffFailed(h[p].rel, RunDone(p))

\* C13 for the failures that raise: those are retried once, and only those.
C13_RetryExactlyOnRaise ==
    \A p \in Procs :
        /\ Len(h[p].asg) <= 2 /\ Len(h[p].rel) <= 2
        /\ Len(h[p].asg) = 2 <=> (h[p].asg # <<>> /\ h[p].asg[1].raised
                                    /\ pc[p] # "assign2")
        /\ Len(h[p].rel) = 2 <=> (h[p].rel # <<>> /\ h[p].rel[1].raised
                                    /\ pc[p] # "release2")

\* C14: no step calls analyze_document for a document whose stored record
\* has a populated ocr_output.
C14_OcrNeverRerun ==
    [][\A p \in Procs :
         (cur[p].id \in Docs /\ store[cur[p].id].ocr_output # <<>>)
            => h'[p].ocr = h[p].ocr \/ h'[p].doc # h[p].doc]_vars

\* C14 for the passes that follow one another: there the record handed to
\* process_document is the stored one, and OCR is not run again.
C14_OcrNeverRerun_Serial ==
    [][\A p \in Procs :
         (~overlap /\ cur[p].id \in Docs /\ store[cur[p].id].ocr_output # <<>>)
            => h'[p].ocr = h[p].ocr \/ h'[p].doc # h[p].doc]_vars

\* C15: when the last pass of each trigger has returned, every record either
\* of them selected is processed or failed.
BothReturned ==
    \A p \in Procs : pc[p] = "idle" /\ ps[p].result = "returned"

C15_NeverLeftProcessing ==
    BothReturned
        => \A p \in Procs : \A d \in ps[p].picked :
              store[d].status \in {"processed", "failed"}

\* Two passes that overlapped, both having selected d1, have returned.
C15_Witness ==
    /\ BothReturned
    /\ \A p \in Procs : ~ps[p].alone /\ "d1" \in ps[p].picked
    /\ store["d1"].status = "failed"
    /\ store["d1"].processed_date # <<>>

\* C16: a step that takes a record out of processed is the unconditional
\* status write (processing or failed) of a run that was handed the record
\* before it was processed, in a pass that overlapped another; it leaves the
\* processed_date and the final_* of the run that wrote processed.
C16_LostUpdate ==
    [][\A d \in Docs :
         (store[d].status = "processed" /\ store'[d].status # "processed")
            => /\ store'[d].status \in {"processing", "failed"}
               /\ store'[d].processed_date = store[d].processed_date
               /\ store'[d].final_assignment = store[d].final_assignment
               /\ store'[d].final_release = store[d].final_release
               /\ \E p \in Procs :
                    /\ Acts(p) /\ cur[p].id = d
                    /\ cur[p].status # "processed"
                    /\ ~ps[p].alone]_vars

\* Both passes selected d1; one wrote processed, the other has since
\* written failed over it, and the record keeps the first one's results.
C16_Witness ==
    \E p \in Procs, q \in Procs :
        /\ p # q
        /\ "d1" \in ps[p].picked /\ "d1" \in ps[q].picked
        /\ h[p].doc = "d1" /\ RunDone(p)
        /\ LastStatus(h[p].writes) = "processed"
        /\ h[q].doc = "d1" /\ RunDone(q)
        /\ LastStatus(h[q].writes) = "failed"
        /\ store["d1"].status = "failed"
        /\ store["d1"].processed_date = <<ps[p].no>>
        /\ store["d1"].final_assignment = "m1"
        /\ store["d1"].final_release = "m1"

\* C17: a temporary file is changed or removed only by the run that wrote
\* it, and the os.remove of a run whose OCR, correction and persisting
\* succeeded does not raise.
C17_TempFileScopedToRun ==
    [][\A p \in Procs :
         /\ \A t \in TempPaths :
              (files[t].by = p /\ files'[t] # files[t]) => pc'[p] # pc[p]
         /\ (pc[p] = "finally" /\ loc[p].after = "extract")
              => pc'[p] # "except"]_vars

\* C18: a run in which a correction failed wrote neither ocr_output nor
\* json_data and called no extraction; the last status it writes before it
\* returns is failed (the stored status, when the pass runs alone), and a
\* pass running alone leaves no fresh OCR result in the record.
CorrectionFailed(p) == h[p].corr # <<>> /\ Last(h[p].corr).out = "error"

C18_CorrectionFailureAborts ==
    \A p \in Procs :
        CorrectionFailed(p)
            => /\ \A i \in 1..Len(h[p].writes) : h[p].writes[i].f = "status"
               /\ h[p].asg = <<>> /\ h[p].rel = <<>>
               /\ RunDone(p) =>
                    /\ LastStatus(h[p].writes) = "failed"
                    /\ ps[p].alone =>
                         /\ h[p].endStatus = "failed"
                         /\ store[h[p].doc].ocr_output = cur[p].ocr_output

\* On the OCR path: two pages recognized, the first corrected, the second
\* correction failed.
C18_Witness ==
    \E p \in Procs :
        /\ RunDone(p) /\ CorrectionFailed(p)
        /\ h[p].ocr = 1 /\ Len(h[p].ocrRes.pages) = 2
        /\ Len(h[p].corr) = 2 /\ h[p].corr[1].out = "clean"
        /\ h[p].endStatus = "failed"
        /\ store[h[p].doc].ocr_output = <<>>
        /\ store[h[p].doc].json_data = <<>>

\* On the cached path: the stored pages are kept, the run ends failed.
C18_Witness_Cached ==
    \E p \in Procs :
        /\ RunDone(p) /\ CorrectionFailed(p)
        /\ h[p].ocr = 0 /\ Len(cur[p].ocr_output) = 2
        /\ Len(h[p].corr) = 2 /\ h[p].corr[1].out = "clean"
        /\ h[p].endStatus = "failed"

\* C19: a processed record has json_data, processed_date and both final_*
\* written; a run writes processed only in its final update, together with
\* processed_date and the final_*, after it persisted ocr_output and
\* json_data and called both extractions; and final_release is extracted
\* only after final_assignment was.
WritesProcessed(w) == w.status = "processed"

C19_ProcessedIsComplete ==
    /\ \A d \in Docs :
         store[d].status = "processed"
            => /\ store[d].json_data # <<>>
               /\ store[d].ocr_output # <<>>
               /\ store[d].processed_date # <<>>
               /\ store[d].final_assignment # Absent
               /\ store[d].final_release # Absent
    /\ \A p \in Procs :
         /\ h[p].rel # <<>> => h[p].asg # <<>>
         /\ \A i \in 1..Len(h[p].writes) :
              WritesProcessed(h[p].writes[i])
                 => /\ h[p].writes[i].f = "final"
                    /\ i = Len(h[p].writes)
                    /\ h[p].writes[i].processed_date # <<>>
                    /\ h[p].writes[i].final_assignment \notin {Absent, Unbound}
                    /\ h[p].writes[i].final_release \notin {Absent, Unbound}
                    /\ \E j \in 1..(i - 1) :
                         /\ h[p].writes[j].f = "data"
                         /\ h[p].writes[j].ocr_output # <<>>
                         /\ h[p].writes[j].json_data # <<>>
                    /\ h[p].asg # <<>> /\ h[p].rel # <<>>

\* A record this system processed, with a null in one of its fields.
C19_Witness ==
    \E p \in Procs :
        /\ RunDone(p)
        /\ WritesProcessed(Last(h[p].writes))
        /\ store[h[p].doc].status = "processed"
        /\ store[h[p].doc].processed_date = <<ps[p].no>>
        /\ store[h[p].doc].final_assignment = Null
        /\ store[h[p].doc].final_release = "m1"

====
